---- MODULE Spec2Model ----
(***************************************************************************)
(* State-machine model of the frame-and-telemetry relay pipeline:          *)
(*   - position_register (framework/drone_utils.py): the rate-limited      *)
(*     telemetry sampler;                                                  *)
(*   - rtsp_processing (framework/rtsp_utils.py): frame ingest queue,      *)
(*     compositor threads, telemetry inbox, offline fallback;              *)
(*   - restreaming (framework/rtsp_utils.py): the pull-driven frame source.*)
(* Each component has its own next-state relation and specification; the   *)
(* variables of the other components stay unchanged under it.              *)
(***************************************************************************)
EXTENDS Integers, Sequences, FiniteSets, TLC

(* ------------------------------------------------------------------ *)
(* Bounds of the model                                                *)
(* ------------------------------------------------------------------ *)

\* clock ticks per wall-clock second (the clock's resolution)
Second == 10
\* ticks of wall-clock time explored after the first clock reading
MaxTime == 13
\* clock ticks that may pass while one onEventChanged invocation runs
MaxLag == 1
\* telemetry events delivered to onEventChanged in one behaviour
MaxEvents == 3
\* video frames delivered to yuv_frame_cb in one behaviour
MaxFrames == 2
\* compositor threads started by run_stream in one behaviour
MaxThreads == 2
\* telemetry messages delivered to on_message in one behaviour
MaxMsgs == 2
\* placeholder publications of offline_mode in one behaviour
MaxOffline == 2
\* flush_cb invocations in one behaviour
MaxFlushes == 1
\* relay messages published on 'frame_buffer' in one behaviour
MaxRelay == 3
\* need_data pulls in one behaviour
MaxPulls == 4
\* media constructed by the factory in one behaviour
MaxMedia == 2
\* frames delivered to OlympeStreaming.yuv_frame_cb in one behaviour
MaxOlympeFrames == 3
\* calls of OlympeStreaming.flush_cb in one behaviour
MaxOlympeFlushes == 2
\* frames and telemetry messages in a behaviour of OfflineSpec
OfflineFrames == 1
OfflineMsgs == 1
\* telemetry messages delivered to on_message in a behaviour of InboxSpec
InboxMsgs == 52
\* video frames delivered to yuv_frame_cb in a behaviour of InboxSpec
InboxFrames == 1
\* placeholder publications of offline_mode in a behaviour of InboxSpec
InboxOffline == 1

(* ------------------------------------------------------------------ *)
(* Program constants                                                  *)
(* ------------------------------------------------------------------ *)

\* module_init.run_threads sleeps 30 s before the threads (and with them
\* the listener's subscription) are started
SetupSleepSeconds == 30
\* queue.Queue(maxsize=50): the capacity of the telemetry inbox
MessageQueueMaxsize == 50
\* Gst.SECOND, in nanoseconds
GstSecond == 1000000000
\* the frame rate in the duration computed by on_need_data: (1 / 30)
PullFps == 30

\* "stream_fps": 30 in output_url_data of spade_restream_module
ShippedFps == 30

\* the stream_fps values a url_data is configured with
ConfiguredFps == {25, ShippedFps, 60}

VARIABLES
    \* ---- position_register
    now,            \* wall clock, in ticks (datetime.datetime.now())
    Ts,             \* self.Ts, in ticks
    last_update,    \* self.last_update, in ticks
    camera,         \* the drone's camera2.Event.State: "uninit", "inactive", "active"
    ev_pc,          \* position of the onEventChanged invocation in progress
    ev_t,           \* clock value read on entry of the invocation in progress
    event_message,  \* the invocation's event_message (its 'time' and 'camera_status')
    camera_dict,    \* the invocation's camera_dict
    mqtt_out,       \* messages published on the MQTT broker by the latest
                    \* invocation that published, in order
    pubCount,       \* history: messages published so far, per topic
    evLog,          \* history: the outcome of every finished invocation, in order
    evFirst,        \* history: arrival time of the first event (-1: none yet)
    lastPubAt,      \* history: clock values at the latest telemetry publication
                    \* and at the one before it (-1: none)
    lag,            \* clock ticks passed during the invocation in progress
    t0,             \* the first clock reading of the behaviour
    instant         \* history: every event so far arrived on Schedule and was
                    \* handled within the clock tick of its arrival
VARIABLES
    \* ---- rtsp_processing
    stream_flag_event, \* the threading.Event shared by the threads: is it set
    streaming,      \* the drone's streaming is started with the callbacks set
    frame_queue,    \* self.frame_queue: the frames held, oldest first
    refcnt,         \* per frame: ref() calls minus unref() calls
    nframes,        \* frames delivered to yuv_frame_cb so far
    th,             \* per compositor thread: pc and the locals of yuv_frame_processing
    rs,             \* the run_stream thread: pc and the locals of offline_mode;
                    \* history: inbox clears, placeholders published, and the
                    \* number of messages received when the inbox was cleared
    message_queue,  \* self.message_queue: the telemetry inbox, oldest first
    om,             \* the on_message invocation in progress: pc and message
    nmsgs,          \* telemetry messages delivered to on_message so far
    frame_buffer,   \* history: the publications on the 'frame_buffer' channel
    fl,             \* the flush_cb invocation in progress, and history of the last
    budget          \* how many frames, threads, messages and placeholder
                    \* publications a behaviour draws

samplerVars == <<now, Ts, last_update, camera, ev_pc, ev_t, event_message,
                 camera_dict, mqtt_out, pubCount, evLog, evFirst, lastPubAt,
                 lag, t0, instant>>

VARIABLES
    \* ---- restreaming
    url_data,       \* self.url_data: the configuration given to the constructor
    backlog,        \* relay messages received on the subscription, not yet read
    frame,          \* self.frame: the latest-frame cache
    number_frames,  \* self.number_frames
    nd,             \* the on_need_data invocation in progress
    media,          \* do_configure calls so far (media constructed by the factory)
    npub,           \* relay messages published on 'frame_buffer' so far
    delivered,      \* history: the latest message handed to buffer_callback
    emitted         \* history: the buffers pushed to the appsrc, in order

streamVars == <<stream_flag_event, streaming, frame_queue, refcnt, nframes, th, rs,
                message_queue, om, nmsgs, frame_buffer, fl, budget>>

restreamVars == <<url_data, backlog, frame, number_frames, nd, media, npub, delivered, emitted>>

VARIABLES
    \* ---- OlympeStreaming
    olympe_started,     \* start() was called: the callbacks are set
    olympe_frame_queue, \* self.frame_queue: the frames held, oldest first
    olympe_refcnt,      \* per frame: ref() calls minus unref() calls
    olympe_nframes,     \* frames delivered to yuv_frame_cb so far
    olympe_run,         \* the thread of run: pc and its yuv_frame
    flush_queue_lock,   \* self.flush_queue_lock is held
    olympe_fl           \* the flush_cb invocation in progress, and its result

olympeVars == <<olympe_started, olympe_frame_queue, olympe_refcnt, olympe_nframes,
                olympe_run, flush_queue_lock, olympe_fl>>

vars == <<samplerVars, streamVars, restreamVars, olympeVars>>

(* ------------------------------------------------------------------ *)
(* position_register                                                  *)
(* ------------------------------------------------------------------ *)

\* the time at which begin_register subscribes the listener, at the earliest
SubscribeTime == SetupSleepSeconds * Second

\* strftime('%Y-%m-%d %H:%M:%S'): the timestamp cut to whole seconds
strftime(t) == t \div Second

\* arrival times, relative to the first event: t = 0.0, 0.5 and 1.2 s
Schedule == <<0, Second \div 2, Second + Second \div 5>>

\* the event arriving now, as the k-th, arrives at its scheduled time
OnSchedule(k, first) ==
    /\ k <= Len(Schedule)
    /\ now = (IF k = 1 THEN now ELSE first) + Schedule[k]

NoMessage == [time |-> -1, camera_status |-> FALSE]
NoCamera == [kind |-> "none", zoom |-> "", active |-> FALSE, time |-> -1, first |-> ""]

\* drone_obj.get_state(camera2.Event.State): an OrderedDict when the camera
\* state is known; the except branch builds a plain dict with the defaults
get_camera_state ==
    IF camera = "uninit"
    THEN [kind |-> "dict", zoom |-> "", active |-> FALSE, time |-> -1, first |-> "zoom"]
    ELSE [kind |-> "OrderedDict", zoom |-> "x1", active |-> (camera = "active"),
          time |-> -1, first |-> "zoom"]

\* position_register.__init__ at time 0, the subscription at time start
InitSamplerWith(start, sampling, cam) ==
    /\ now = start
    /\ t0 = now
    /\ lastPubAt = <<-1, -1>>
    /\ lag = 0
    /\ Ts = sampling
    /\ last_update = 0
    /\ camera = cam
    /\ ev_pc = "idle"
    /\ ev_t = 0
    /\ event_message = NoMessage
    /\ camera_dict = NoCamera
    /\ mqtt_out = <<>>
    /\ pubCount = [telemetry_topic |-> 0, camera_topic |-> 0]
    /\ evLog = <<>>
    /\ evFirst = -1
    /\ instant = TRUE

InitSampler ==
    \E start \in SubscribeTime .. (SubscribeTime + Second - 1),
       sampling \in {Second \div 2, Second},
       cam \in {"uninit", "inactive", "active"} :
       InitSamplerWith(start, sampling, cam)

\* the sampler as the other components' specifications start it
SamplerAtRest == InitSamplerWith(SubscribeTime, Second, "uninit")

\* the end of an invocation: its outcome is logged
Finish(outcome) ==
    /\ ev_pc' = "idle"
    /\ lag' = 0
    /\ evLog' = Append(evLog, outcome)
    /\ event_message' = NoMessage
    /\ camera_dict' = NoCamera

\* wall-clock time passes
Tick ==
    /\ now < t0 + MaxTime
    /\ ev_pc # "idle" => lag < MaxLag
    /\ now' = now + 1
    /\ lag' = IF ev_pc = "idle" THEN 0 ELSE lag + 1
    /\ instant' = (instant /\ ev_pc = "idle")
    /\ UNCHANGED <<Ts, last_update, camera, ev_pc, ev_t, event_message,
                   camera_dict, mqtt_out, pubCount, evLog, evFirst, lastPubAt, t0>>
    /\ UNCHANGED <<streamVars, restreamVars, olympeVars>>

\* the drone reports a camera state
CameraStateChanged ==
    /\ camera = "uninit"
    /\ camera' \in {"inactive", "active"}
    /\ UNCHANGED <<now, Ts, last_update, ev_pc, ev_t, event_message,
                   camera_dict, mqtt_out, pubCount, evLog, evFirst, lastPubAt,
                   lag, t0, instant>>
    /\ UNCHANGED <<streamVars, restreamVars, olympeVars>>

\* onEventChanged, lines 64-66: the second-resolution comparison
onEventChanged_enter ==
    /\ ev_pc = "idle"
    /\ Len(evLog) < MaxEvents
    /\ evFirst' = IF evFirst = -1 THEN now ELSE evFirst
    /\ instant' = (instant /\ OnSchedule(Len(evLog) + 1, evFirst))
    /\ IF strftime(now) # strftime(last_update)
       THEN /\ ev_pc' = "read"
            /\ ev_t' = now
            /\ UNCHANGED <<evLog, event_message, camera_dict>>
       ELSE /\ evLog' = Append(evLog, "suppressed")
            /\ UNCHANGED <<ev_pc, ev_t, event_message, camera_dict>>
    /\ UNCHANGED <<now, Ts, last_update, camera, mqtt_out, pubCount, lastPubAt, lag, t0>>
    /\ UNCHANGED <<streamVars, restreamVars, olympeVars>>

\* lines 67-91: the state is re-read, the messages are built; move_to_end
\* exists on an OrderedDict only, a plain dict raises AttributeError
onEventChanged_read ==
    /\ ev_pc = "read"
    /\ LET cd == get_camera_state
       IN  IF cd.kind = "OrderedDict"
           THEN /\ event_message' = [time |-> now, camera_status |-> cd.active]
                /\ camera_dict' = [cd EXCEPT !.time = now, !.first = "time"]
                /\ ev_pc' = "gate"
                /\ UNCHANGED <<evLog, lag>>
           ELSE Finish("attribute_error")
    /\ UNCHANGED <<now, Ts, last_update, camera, ev_t, mqtt_out, pubCount, evFirst,
                   lastPubAt, t0, instant>>
    /\ UNCHANGED <<streamVars, restreamVars, olympeVars>>

\* a gate that registers every event it sees as the last update
onEventChanged_gate_updates ==
    /\ ev_pc = "gate"
    /\ IF now - last_update >= Ts
       THEN /\ ev_pc' = "pub_telemetry"
            /\ UNCHANGED <<evLog, event_message, camera_dict, lag, last_update>>
       ELSE /\ Finish("suppressed")
            /\ last_update' = now
    /\ UNCHANGED <<now, Ts, camera, ev_t, mqtt_out, pubCount, evFirst,
                   lastPubAt, t0, instant>>
    /\ UNCHANGED <<streamVars, restreamVars, olympeVars>>

\* lines 94-95: the elapsed-time gate
onEventChanged_gate ==
    /\ ev_pc = "gate"
    /\ IF now - last_update >= Ts
       THEN /\ ev_pc' = "pub_telemetry"
            /\ UNCHANGED <<evLog, event_message, camera_dict, lag>>
       ELSE Finish("suppressed")
    /\ UNCHANGED <<now, Ts, last_update, camera, ev_t, mqtt_out, pubCount, evFirst,
                   lastPubAt, t0, instant>>
    /\ UNCHANGED <<streamVars, restreamVars, olympeVars>>

\* mqtt_publisher: connect (raises TypeError when it fails), publish, disconnect
mqtt_publisher(msg, connected, nextpc) ==
    IF connected
    THEN /\ mqtt_out' = IF nextpc = "pub_camera" THEN <<msg>> ELSE Append(mqtt_out, msg)
         /\ pubCount' = [pubCount EXCEPT ![msg.topic] = @ + 1]
         /\ ev_pc' = nextpc
         /\ UNCHANGED <<evLog, event_message, camera_dict, lag>>
    ELSE /\ Finish("connect_error")
         /\ UNCHANGED <<mqtt_out, pubCount>>

\* line 96
onEventChanged_telemetry ==
    /\ ev_pc = "pub_telemetry"
    /\ \E connected \in BOOLEAN :
          /\ mqtt_publisher([topic |-> "telemetry_topic", time |-> event_message.time,
                          camera_status |-> event_message.camera_status,
                          first |-> "time", zoom |-> ""],
                         connected, "pub_camera")
          /\ lastPubAt' = IF connected THEN <<now, lastPubAt[1]>> ELSE lastPubAt
    /\ UNCHANGED <<now, Ts, last_update, camera, ev_t, evFirst, t0, instant>>
    /\ UNCHANGED <<streamVars, restreamVars, olympeVars>>

\* line 97
onEventChanged_camera ==
    /\ ev_pc = "pub_camera"
    /\ \E connected \in BOOLEAN :
          mqtt_publisher([topic |-> "camera_topic", time |-> camera_dict.time,
                          camera_status |-> camera_dict.active,
                          first |-> camera_dict.first, zoom |-> camera_dict.zoom],
                         connected, "update")
    /\ UNCHANGED <<now, Ts, last_update, camera, ev_t, evFirst, lastPubAt, t0, instant>>
    /\ UNCHANGED <<streamVars, restreamVars, olympeVars>>

\* line 98
onEventChanged_update ==
    /\ ev_pc = "update"
    /\ last_update' = now
    /\ Finish("published")
    /\ UNCHANGED <<now, Ts, camera, ev_t, mqtt_out, pubCount, evFirst, lastPubAt,
                   t0, instant>>
    /\ UNCHANGED <<streamVars, restreamVars, olympeVars>>

(* ------------------------------------------------------------------ *)
(* rtsp_processing                                                    *)
(* ------------------------------------------------------------------ *)

Threads == 1..MaxThreads
Frames == 1..MaxFrames

\* the text of last_telemetry before any inbox entry is consumed:
\* 'waiting telemetry data...'; every other text is the number of the message
WaitingText == 0

UnbornThread == [pc |-> "unborn", yuv_frame |-> 0, offline_flag |-> FALSE,
                 last_telemetry |-> WaitingText, curr_telemetry |-> WaitingText]

\* rtsp_processing.__init__ (the Redis ping succeeded), before run_threads
InitStreamWith(b) ==
    /\ stream_flag_event = FALSE
    /\ streaming = FALSE
    /\ frame_queue = <<>>
    /\ refcnt = [f \in Frames |-> 0]
    /\ nframes = 0
    /\ th = [t \in Threads |-> UnbornThread]
    /\ rs = [pc |-> "check", offline_flag |-> FALSE, clears |-> 0, placeholders |-> 0,
             cleared_at |-> -1]
    /\ message_queue = <<>>
    /\ om = [pc |-> "idle", msg |-> 0]
    /\ nmsgs = 0
    /\ frame_buffer = <<>>
    /\ fl = [pc |-> "idle", calls |-> 0, start |-> 0, released |-> {}, result |-> "none"]
    /\ budget = b

InitStream ==
    InitStreamWith([frames |-> MaxFrames, threads |-> MaxThreads, msgs |-> MaxMsgs,
                    placeholders |-> MaxOffline])

\* flight_control.run_flight, line 194: flight_flag_event.set()
run_flight ==
    /\ ~stream_flag_event
    /\ stream_flag_event' = TRUE
    /\ UNCHANGED <<streaming, frame_queue, refcnt, nframes, th, rs, message_queue, om,
                   nmsgs, frame_buffer, fl, budget>>
    /\ UNCHANGED <<samplerVars, restreamVars, olympeVars>>

\* yuv_frame_cb: ref() the frame and put_nowait it (the queue is unbounded)
yuv_frame_cb ==
    /\ streaming
    /\ nframes < budget.frames
    /\ nframes < MaxFrames
    /\ LET f == nframes + 1
       IN  /\ refcnt' = [refcnt EXCEPT ![f] = @ + 1]
           /\ frame_queue' = Append(frame_queue, f)
           /\ nframes' = f
    /\ UNCHANGED <<stream_flag_event, streaming, th, rs, message_queue, om, nmsgs,
                   frame_buffer, fl, budget>>
    /\ UNCHANGED <<samplerVars, restreamVars, olympeVars>>

\* retrieve_frames: a new compositor thread, the callbacks, streaming.start()
retrieve_frames(t) ==
    /\ th' = [th EXCEPT ![t] = [UnbornThread EXCEPT !.pc = "while"]]
    /\ streaming' = TRUE

\* run_stream, lines 147-151: one evaluation of the loop body
run_stream ==
    /\ rs.pc = "check"
    /\ IF ~stream_flag_event
       THEN /\ \E t \in Threads :
                 /\ th[t].pc = "unborn"
                 /\ t <= budget.threads
                 /\ \A u \in Threads : u < t => th[u].pc # "unborn"
                 /\ retrieve_frames(t)
            /\ UNCHANGED rs
       ELSE /\ rs' = [rs EXCEPT !.pc = "offline_mode"]
            /\ UNCHANGED <<th, streaming>>
    /\ UNCHANGED <<stream_flag_event, frame_queue, refcnt, nframes, message_queue, om,
                   nmsgs, frame_buffer, fl, budget>>
    /\ UNCHANGED <<samplerVars, restreamVars, olympeVars>>

\* offline_mode, lines 134-136: the inbox is cleared, offline_flag = True
offline_mode_enter ==
    /\ rs.pc = "offline_mode"
    /\ message_queue' = <<>>
    /\ rs' = [rs EXCEPT !.pc = "offline_loop", !.offline_flag = TRUE, !.clears = @ + 1,
                        !.cleared_at = nmsgs]
    /\ UNCHANGED <<stream_flag_event, streaming, frame_queue, refcnt, nframes, th, om,
                   nmsgs, frame_buffer, fl, budget>>
    /\ UNCHANGED <<samplerVars, restreamVars, olympeVars>>

\* an offline_mode that sleeps without publishing the placeholder
offline_mode_publish_silent ==
    /\ rs.pc = "offline_loop"
    /\ rs' = [rs EXCEPT !.pc = "sleep", !.offline_flag = stream_flag_event]
    /\ UNCHANGED <<stream_flag_event, streaming, frame_queue, refcnt, nframes, th,
                   message_queue, om, nmsgs, frame_buffer, fl, budget>>
    /\ UNCHANGED <<samplerVars, restreamVars, olympeVars>>

\* offline_mode, lines 137-140: the flag is re-read, the placeholder published
offline_mode_publish ==
    /\ rs.pc = "offline_loop"
    /\ rs.placeholders < budget.placeholders
    /\ rs' = [rs EXCEPT !.pc = "sleep", !.offline_flag = stream_flag_event,
                        !.placeholders = @ + 1]
    /\ frame_buffer' = Append(frame_buffer,
                              [src |-> "nosignal", yuv_frame |-> 0, text |-> -1,
                               seen |-> TRUE, thread |-> 0, clears |-> rs.clears])
    /\ UNCHANGED <<stream_flag_event, streaming, frame_queue, refcnt, nframes, th,
                   message_queue, om, nmsgs, fl, budget>>
    /\ UNCHANGED <<samplerVars, restreamVars, olympeVars>>

\* an offline_mode that publishes the placeholder once and returns
offline_mode_sleep_returns ==
    /\ rs.pc = "sleep"
    /\ rs' = [rs EXCEPT !.pc = "check"]
    /\ UNCHANGED <<stream_flag_event, streaming, frame_queue, refcnt, nframes, th,
                   message_queue, om, nmsgs, frame_buffer, fl, budget>>
    /\ UNCHANGED <<samplerVars, restreamVars, olympeVars>>

\* offline_mode, lines 141 and 137: time.sleep(5) ends and the loop condition
\* is tested; offline_mode returns to run_stream when offline_flag is False
offline_mode_sleep ==
    /\ rs.pc = "sleep"
    /\ rs' = [rs EXCEPT !.pc = IF rs.offline_flag THEN "offline_loop" ELSE "check"]
    /\ UNCHANGED <<stream_flag_event, streaming, frame_queue, refcnt, nframes, th,
                   message_queue, om, nmsgs, frame_buffer, fl, budget>>
    /\ UNCHANGED <<samplerVars, restreamVars, olympeVars>>

\* yuv_frame_processing, line 67: the loop condition
processing_while(t) ==
    /\ th[t].pc = "while"
    /\ th' = [th EXCEPT ![t].pc = IF th[t].offline_flag THEN "done" ELSE "get"]
    /\ UNCHANGED <<stream_flag_event, streaming, frame_queue, refcnt, nframes, rs,
                   message_queue, om, nmsgs, frame_buffer, fl, budget>>
    /\ UNCHANGED <<samplerVars, restreamVars, olympeVars>>

\* lines 68-71: frame_queue.get(timeout=0.1); on queue.Empty, continue
processing_get(t) ==
    /\ th[t].pc = "get"
    /\ IF frame_queue # <<>>
       THEN /\ th' = [th EXCEPT ![t].pc = "flag", ![t].yuv_frame = Head(frame_queue)]
            /\ frame_queue' = Tail(frame_queue)
       ELSE /\ th' = [th EXCEPT ![t].pc = "while"]
            /\ UNCHANGED frame_queue
    /\ UNCHANGED <<stream_flag_event, streaming, refcnt, nframes, rs, message_queue, om,
                   nmsgs, frame_buffer, fl, budget>>
    /\ UNCHANGED <<samplerVars, restreamVars, olympeVars>>

\* lines 73-74: the flag is read, the frame converted (to_ndarray may raise:
\* the thread ends with the frame still referenced)
processing_flag(t) ==
    /\ th[t].pc = "flag"
    /\ \E converted \in BOOLEAN :
          th' = [th EXCEPT ![t].offline_flag = stream_flag_event,
                           ![t].pc = IF converted THEN "telemetry" ELSE "raised"]
    /\ UNCHANGED <<stream_flag_event, streaming, frame_queue, refcnt, nframes, rs,
                   message_queue, om, nmsgs, frame_buffer, fl, budget>>
    /\ UNCHANGED <<samplerVars, restreamVars, olympeVars>>

\* lines 77, 80-81: message_queue.empty()
processing_telemetry(t) ==
    /\ th[t].pc = "telemetry"
    /\ IF message_queue # <<>>
       THEN th' = [th EXCEPT ![t].pc = "message_get"]
       ELSE th' = [th EXCEPT ![t].pc = "publish",
                             ![t].curr_telemetry = th[t].last_telemetry]
    /\ UNCHANGED <<stream_flag_event, streaming, frame_queue, refcnt, nframes, rs,
                   message_queue, om, nmsgs, frame_buffer, fl, budget>>
    /\ UNCHANGED <<samplerVars, restreamVars, olympeVars>>

\* lines 78-79: message_queue.get(), which waits while the queue is empty
processing_message_get(t) ==
    /\ th[t].pc = "message_get"
    /\ message_queue # <<>>
    /\ th' = [th EXCEPT ![t].pc = "publish",
                        ![t].curr_telemetry = Head(message_queue),
                        ![t].last_telemetry = Head(message_queue)]
    /\ message_queue' = Tail(message_queue)
    /\ UNCHANGED <<stream_flag_event, streaming, frame_queue, refcnt, nframes, rs, om,
                   nmsgs, frame_buffer, fl, budget>>
    /\ UNCHANGED <<samplerVars, restreamVars, olympeVars>>

\* lines 83-87: overlay, imencode, publish, unref; an exception of any of the
\* first three ends the thread before the unref
processing_publish(t) ==
    /\ th[t].pc = "publish"
    /\ \E outcome \in {"ok", "encode_error", "publish_error"} :
          IF outcome = "ok"
          THEN /\ frame_buffer' = Append(frame_buffer,
                                         [src |-> "live", yuv_frame |-> th[t].yuv_frame,
                                          text |-> th[t].curr_telemetry,
                                          seen |-> th[t].offline_flag, thread |-> t,
                                          clears |-> rs.clears])
               /\ refcnt' = [refcnt EXCEPT ![th[t].yuv_frame] = @ - 1]
               /\ th' = [th EXCEPT ![t].pc = "while", ![t].yuv_frame = 0]
          ELSE /\ th' = [th EXCEPT ![t].pc = "raised"]
               /\ UNCHANGED <<frame_buffer, refcnt>>
    /\ UNCHANGED <<stream_flag_event, streaming, frame_queue, nframes, rs, message_queue,
                   om, nmsgs, fl, budget>>
    /\ UNCHANGED <<samplerVars, restreamVars, olympeVars>>

yuv_frame_processing ==
    \E t \in Threads :
       \/ processing_while(t)
       \/ processing_get(t)
       \/ processing_flag(t)
       \/ processing_telemetry(t)
       \/ processing_message_get(t)
       \/ processing_publish(t)

\* on_message discarding the arriving message, not the oldest, when full
on_message_drop_newest ==
    /\ CASE om.pc = "idle" ->
              /\ nmsgs < budget.msgs
              /\ nmsgs' = nmsgs + 1
              /\ om' = IF Len(message_queue) >= MessageQueueMaxsize
                       THEN om ELSE [pc |-> "put", msg |-> nmsgs + 1]
              /\ UNCHANGED message_queue
         [] om.pc = "get" ->
              /\ message_queue # <<>>
              /\ message_queue' = Tail(message_queue)
              /\ om' = [om EXCEPT !.pc = "put"]
              /\ UNCHANGED nmsgs
         [] om.pc = "put" ->
              /\ Len(message_queue) < MessageQueueMaxsize
              /\ message_queue' = Append(message_queue, om.msg)
              /\ om' = [pc |-> "idle", msg |-> 0]
              /\ UNCHANGED nmsgs
    /\ UNCHANGED <<stream_flag_event, streaming, frame_queue, refcnt, nframes, th, rs,
                   frame_buffer, fl, budget>>
    /\ UNCHANGED <<samplerVars, restreamVars, olympeVars>>

\* on_message, lines 161-165: full() is tested, then put(), or get() and put();
\* get() waits while the queue is empty, put() while it is full
on_message ==
    /\ CASE om.pc = "idle" ->
              /\ nmsgs < budget.msgs
              /\ nmsgs' = nmsgs + 1
              /\ om' = [pc |-> IF Len(message_queue) >= MessageQueueMaxsize
                               THEN "get" ELSE "put",
                        msg |-> nmsgs + 1]
              /\ UNCHANGED message_queue
         [] om.pc = "get" ->
              /\ message_queue # <<>>
              /\ message_queue' = Tail(message_queue)
              /\ om' = [om EXCEPT !.pc = "put"]
              /\ UNCHANGED nmsgs
         [] om.pc = "put" ->
              /\ Len(message_queue) < MessageQueueMaxsize
              /\ message_queue' = Append(message_queue, om.msg)
              /\ om' = [pc |-> "idle", msg |-> 0]
              /\ UNCHANGED nmsgs
    /\ UNCHANGED <<stream_flag_event, streaming, frame_queue, refcnt, nframes, th, rs,
                   frame_buffer, fl, budget>>
    /\ UNCHANGED <<samplerVars, restreamVars, olympeVars>>

\* flush_cb, lines 90-91: called with the flushed stream's format
flush_cb_call ==
    /\ streaming
    /\ fl.pc = "idle"
    /\ fl.calls < MaxFlushes
    /\ \E vdef_format \in {"I420", "NV12"} :
          fl' = IF vdef_format # "I420"
                THEN [fl EXCEPT !.calls = @ + 1, !.start = nframes, !.released = {},
                                !.result = "true_other_format"]
                ELSE [fl EXCEPT !.calls = @ + 1, !.start = nframes, !.released = {},
                                !.result = "none", !.pc = "loop"]
    /\ UNCHANGED <<stream_flag_event, streaming, frame_queue, refcnt, nframes, th, rs,
                   message_queue, om, nmsgs, frame_buffer, budget>>
    /\ UNCHANGED <<samplerVars, restreamVars, olympeVars>>

\* lines 92, 94: the loop condition; return True once the queue is seen empty
flush_cb_loop ==
    /\ fl.pc = "loop"
    /\ fl' = IF frame_queue = <<>>
             THEN [fl EXCEPT !.pc = "idle", !.result = "true"]
             ELSE [fl EXCEPT !.pc = "get"]
    /\ UNCHANGED <<stream_flag_event, streaming, frame_queue, refcnt, nframes, th, rs,
                   message_queue, om, nmsgs, frame_buffer, budget>>
    /\ UNCHANGED <<samplerVars, restreamVars, olympeVars>>

\* flush_cb_get without the unref() of the drained frame
flush_cb_get_no_unref ==
    /\ fl.pc = "get"
    /\ IF frame_queue = <<>>
       THEN /\ fl' = [fl EXCEPT !.pc = "idle", !.result = "raised"]
            /\ UNCHANGED frame_queue
       ELSE /\ fl' = [fl EXCEPT !.pc = "loop", !.released = @ \cup {Head(frame_queue)}]
            /\ frame_queue' = Tail(frame_queue)
    /\ UNCHANGED <<stream_flag_event, streaming, refcnt, nframes, th, rs, message_queue,
                   om, nmsgs, frame_buffer, budget>>
    /\ UNCHANGED <<samplerVars, restreamVars, olympeVars>>

\* line 93: get_nowait().unref(); get_nowait raises queue.Empty on an empty queue
flush_cb_get ==
    /\ fl.pc = "get"
    /\ IF frame_queue = <<>>
       THEN /\ fl' = [fl EXCEPT !.pc = "idle", !.result = "raised"]
            /\ UNCHANGED <<frame_queue, refcnt>>
       ELSE /\ fl' = [fl EXCEPT !.pc = "loop", !.released = @ \cup {Head(frame_queue)}]
            /\ refcnt' = [refcnt EXCEPT ![Head(frame_queue)] = @ - 1]
            /\ frame_queue' = Tail(frame_queue)
    /\ UNCHANGED <<stream_flag_event, streaming, nframes, th, rs, message_queue, om,
                   nmsgs, frame_buffer, budget>>
    /\ UNCHANGED <<samplerVars, restreamVars, olympeVars>>

StreamNext ==
    \/ run_flight
    \/ yuv_frame_cb
    \/ run_stream
    \/ offline_mode_enter
    \/ offline_mode_publish
    \/ offline_mode_sleep
    \/ yuv_frame_processing
    \/ on_message
    \/ flush_cb_call
    \/ flush_cb_loop
    \/ flush_cb_get

(* ------------------------------------------------------------------ *)
(* restreaming                                                        *)
(* ------------------------------------------------------------------ *)

\* the values self.frame takes: None, the NO SIGNAL image, and the array made
\* from relay message id (np.array(None) when its bytes were no image)
NoFrame == [src |-> "None", id |-> 0, image |-> FALSE]
offline_frame == [src |-> "offline_frame", id |-> 0, image |-> TRUE]

\* cv2.imdecode: the image of the payload, None when the bytes are no image
imdecode(message) == IF message.kind = "jpeg" THEN "image" ELSE "None"

\* (1 / 30) * Gst.SECOND, stored in the buffer's unsigned 64-bit duration field
frame_duration == GstSecond \div PullFps

\* redis-py: the reply of SUBSCRIBE is the first message of the subscription
\* and is handed to no handler
SubscribeReply == [id |-> 0, kind |-> "subscribe"]

\* the framerate of the appsrc caps in restream_launch
caps_framerate == url_data.stream_fps

\* restreaming.__init__ with the given stream_fps in url_data
InitRestreamWith(stream_fps) ==
    /\ url_data = [stream_fps |-> stream_fps]
    /\ backlog = <<SubscribeReply>>
    /\ frame = NoFrame
    /\ number_frames = 0
    /\ nd = "idle"
    /\ media = 0
    /\ npub = 0
    /\ delivered = 0
    /\ emitted = <<>>

\* restreaming(output_url_data) as spade_restream_module constructs it
InitRestream == InitRestreamWith(ShippedFps)

\* a publication on the 'frame_buffer' channel reaches the subscription
relay_publish ==
    /\ npub < MaxRelay
    /\ npub' = npub + 1
    /\ \E kind \in {"jpeg", "garbage"} :
          backlog' = Append(backlog, [id |-> npub + 1, kind |-> kind])
    /\ UNCHANGED <<frame, number_frames, nd, media, delivered, emitted>>
    /\ UNCHANGED <<url_data, samplerVars, streamVars, olympeVars>>

\* a handler that decodes the message and stores nothing
buffer_callback_stores_nothing(message) == NoFrame

\* buffer_callback: the cache is overwritten with np.array(imdecode(data))
buffer_callback(message) ==
    [src |-> "relay", id |-> message.id, image |-> (imdecode(message) = "image")]

\* do_configure: a media is constructed; number_frames restarts at 0
do_configure ==
    /\ media < MaxMedia
    /\ nd = "idle"
    /\ media' = media + 1
    /\ number_frames' = 0
    /\ UNCHANGED <<backlog, frame, nd, npub, delivered, emitted>>
    /\ UNCHANGED <<url_data, samplerVars, streamVars, olympeVars>>

\* the appsrc of the current media signals need_data
on_need_data_call ==
    /\ media > 0
    /\ nd = "idle"
    /\ Len(emitted) < MaxPulls
    /\ nd' = "loop"
    /\ UNCHANGED <<backlog, frame, number_frames, media, npub, delivered, emitted>>
    /\ UNCHANGED <<url_data, samplerVars, streamVars, olympeVars>>

\* a sequence counter that a pull leaves where it was
number_frames_unchanged(n) == n

\* self.number_frames += 1
number_frames_incremented(n) == n + 1

\* on_need_data, lines 247-262: one iteration of the loop. get_message reads
\* at most one message and hands a data message to buffer_callback
on_need_data ==
    /\ nd = "loop"
    /\ LET redis_msg == IF backlog = <<>> THEN SubscribeReply ELSE Head(backlog)
           handled == backlog # <<>> /\ redis_msg.kind # "subscribe"
           cache == IF handled THEN buffer_callback(redis_msg) ELSE frame
       IN  /\ backlog' = IF backlog = <<>> THEN backlog ELSE Tail(backlog)
           /\ delivered' = IF handled THEN redis_msg.id ELSE delivered
           /\ IF cache = NoFrame
              THEN /\ frame' = offline_frame
                   /\ UNCHANGED <<number_frames, nd, emitted>>
              ELSE /\ frame' = cache
                   /\ emitted' = Append(emitted,
                         [frame |-> cache, duration |-> frame_duration,
                          pts |-> number_frames * frame_duration,
                          dts |-> number_frames * frame_duration,
                          media |-> media, delivered |-> delivered',
                          published |-> npub,
                          pending |-> Len(backlog')])
                   /\ number_frames' = number_frames_incremented(number_frames)
                   /\ nd' = "idle"
    /\ UNCHANGED <<media, npub>>
    /\ UNCHANGED <<url_data, samplerVars, streamVars, olympeVars>>

(* ------------------------------------------------------------------ *)
(* OlympeStreaming                                                    *)
(* ------------------------------------------------------------------ *)

OlympeFrames == 1..MaxOlympeFrames

\* OlympeStreaming.__init__: the thread is started by the constructor
InitOlympe ==
    /\ olympe_started = FALSE
    /\ olympe_frame_queue = <<>>
    /\ olympe_refcnt = [f \in OlympeFrames |-> 0]
    /\ olympe_nframes = 0
    /\ olympe_run = [pc |-> "get", yuv_frame |-> 0]
    /\ flush_queue_lock = FALSE
    /\ olympe_fl = [pc |-> "idle", calls |-> 0, released |-> {}, result |-> "none"]

\* OlympeStreaming.start: the callbacks are set, the streaming is started
olympe_start ==
    /\ ~olympe_started
    /\ olympe_started' = TRUE
    /\ UNCHANGED <<olympe_frame_queue, olympe_refcnt, olympe_nframes, olympe_run,
                   flush_queue_lock, olympe_fl>>
    /\ UNCHANGED <<samplerVars, streamVars, restreamVars>>

\* OlympeStreaming.yuv_frame_cb: ref() the frame and put_nowait it
olympe_yuv_frame_cb ==
    /\ olympe_started
    /\ olympe_nframes < MaxOlympeFrames
    /\ LET f == olympe_nframes + 1
       IN  /\ olympe_refcnt' = [olympe_refcnt EXCEPT ![f] = @ + 1]
           /\ olympe_frame_queue' = Append(olympe_frame_queue, f)
           /\ olympe_nframes' = f
    /\ UNCHANGED <<olympe_started, olympe_run, flush_queue_lock, olympe_fl>>
    /\ UNCHANGED <<samplerVars, streamVars, restreamVars>>

\* OlympeStreaming.run, line 93: frame_queue.get() with no timeout; on an
\* empty queue the thread waits until a frame is put
olympe_run_get ==
    /\ olympe_run.pc \in {"get", "waiting"}
    /\ IF olympe_frame_queue # <<>>
       THEN /\ olympe_run' = [pc |-> "display", yuv_frame |-> Head(olympe_frame_queue)]
            /\ olympe_frame_queue' = Tail(olympe_frame_queue)
       ELSE /\ olympe_run.pc = "get"
            /\ olympe_run' = [olympe_run EXCEPT !.pc = "waiting"]
            /\ UNCHANGED olympe_frame_queue
    /\ UNCHANGED <<olympe_started, olympe_refcnt, olympe_nframes, flush_queue_lock,
                   olympe_fl>>
    /\ UNCHANGED <<samplerVars, streamVars, restreamVars>>

\* lines 94-96: display_frame, then unref; an exception of display_frame
\* other than queue.Empty ends the thread before the unref
olympe_run_display ==
    /\ olympe_run.pc = "display"
    /\ \E displayed \in BOOLEAN :
          IF displayed
          THEN /\ olympe_refcnt' = [olympe_refcnt EXCEPT ![olympe_run.yuv_frame] = @ - 1]
               /\ olympe_run' = [pc |-> "get", yuv_frame |-> 0]
          ELSE /\ olympe_run' = [olympe_run EXCEPT !.pc = "raised"]
               /\ UNCHANGED olympe_refcnt
    /\ UNCHANGED <<olympe_started, olympe_frame_queue, olympe_nframes, flush_queue_lock,
                   olympe_fl>>
    /\ UNCHANGED <<samplerVars, streamVars, restreamVars>>

\* OlympeStreaming.flush_cb, lines 48-50: the format test, then the lock
olympe_flush_cb_call ==
    /\ olympe_started
    /\ olympe_fl.pc = "idle"
    /\ olympe_fl.calls < MaxOlympeFlushes
    /\ ~flush_queue_lock
    /\ \E vdef_format \in {"I420", "NV12"} :
          IF vdef_format # "I420"
          THEN /\ olympe_fl' = [olympe_fl EXCEPT !.calls = @ + 1, !.released = {},
                                                 !.result = "true_other_format"]
               /\ UNCHANGED flush_queue_lock
          ELSE /\ olympe_fl' = [olympe_fl EXCEPT !.calls = @ + 1, !.released = {},
                                                 !.result = "none", !.pc = "loop"]
               /\ flush_queue_lock' = TRUE
    /\ UNCHANGED <<olympe_started, olympe_frame_queue, olympe_refcnt, olympe_nframes,
                   olympe_run>>
    /\ UNCHANGED <<samplerVars, streamVars, restreamVars>>

\* lines 51, 53: the loop condition; the lock is released, True returned
olympe_flush_cb_loop ==
    /\ olympe_fl.pc = "loop"
    /\ IF olympe_frame_queue = <<>>
       THEN /\ olympe_fl' = [olympe_fl EXCEPT !.pc = "idle", !.result = "true"]
            /\ flush_queue_lock' = FALSE
       ELSE /\ olympe_fl' = [olympe_fl EXCEPT !.pc = "get"]
            /\ UNCHANGED flush_queue_lock
    /\ UNCHANGED <<olympe_started, olympe_frame_queue, olympe_refcnt, olympe_nframes,
                   olympe_run>>
    /\ UNCHANGED <<samplerVars, streamVars, restreamVars>>

\* line 52: get_nowait().unref(); queue.Empty leaves the with block (the
\* lock is released) and flush_cb
olympe_flush_cb_get ==
    /\ olympe_fl.pc = "get"
    /\ IF olympe_frame_queue = <<>>
       THEN /\ olympe_fl' = [olympe_fl EXCEPT !.pc = "idle", !.result = "raised"]
            /\ flush_queue_lock' = FALSE
            /\ UNCHANGED <<olympe_frame_queue, olympe_refcnt>>
       ELSE /\ olympe_fl' = [olympe_fl EXCEPT !.pc = "loop",
                                !.released = @ \cup {Head(olympe_frame_queue)}]
            /\ olympe_refcnt' = [olympe_refcnt EXCEPT ![Head(olympe_frame_queue)] = @ - 1]
            /\ olympe_frame_queue' = Tail(olympe_frame_queue)
            /\ UNCHANGED flush_queue_lock
    /\ UNCHANGED <<olympe_started, olympe_nframes, olympe_run>>
    /\ UNCHANGED <<samplerVars, streamVars, restreamVars>>

OlympeNext ==
    \/ olympe_start
    \/ olympe_yuv_frame_cb
    \/ olympe_run_get
    \/ olympe_run_display
    \/ olympe_flush_cb_call
    \/ olympe_flush_cb_loop
    \/ olympe_flush_cb_get

TelemetryNext ==
    \/ Tick
    \/ CameraStateChanged
    \/ onEventChanged_enter
    \/ onEventChanged_read
    \/ onEventChanged_gate
    \/ onEventChanged_telemetry
    \/ onEventChanged_camera
    \/ onEventChanged_update

\* the pipeline of rtsp_processing
Init == SamplerAtRest /\ InitStream /\ InitRestream /\ InitOlympe

Spec == Init /\ [][StreamNext]_vars

RestreamNext ==
    \/ relay_publish
    \/ do_configure
    \/ on_need_data_call
    \/ on_need_data

\* the pull-driven frame source, for each stream_fps that url_data may carry
RestreamInit ==
    /\ SamplerAtRest
    /\ InitStream
    /\ \E stream_fps \in ConfiguredFps : InitRestreamWith(stream_fps)
    /\ InitOlympe

RestreamSpec == RestreamInit /\ [][RestreamNext]_vars

\* the telemetry inbox between on_message, one compositor thread and
\* offline_mode, with enough messages to fill it
InboxInit ==
    /\ SamplerAtRest
    /\ InitStreamWith([frames |-> InboxFrames, threads |-> 1, msgs |-> InboxMsgs,
                       placeholders |-> InboxOffline])
    /\ InitRestream
    /\ InitOlympe

InboxNext ==
    \/ run_flight
    \/ yuv_frame_cb
    \/ run_stream
    \/ offline_mode_enter
    \/ offline_mode_publish
    \/ offline_mode_sleep
    \/ yuv_frame_processing
    \/ on_message

InboxSpec == InboxInit /\ [][InboxNext]_vars

\* the stream thread with one compositor thread, every thread of the
\* process being scheduled again and again
OfflineInit ==
    /\ SamplerAtRest
    /\ InitStreamWith([frames |-> OfflineFrames, threads |-> 1, msgs |-> OfflineMsgs,
                       placeholders |-> MaxOffline])
    /\ InitRestream
    /\ InitOlympe

OfflineSpec ==
    /\ OfflineInit
    /\ [][InboxNext]_vars
    /\ WF_vars(run_stream)
    /\ WF_vars(offline_mode_enter)
    /\ WF_vars(offline_mode_publish)
    /\ WF_vars(offline_mode_sleep)

\* the standalone live viewer of streaming.py
OlympeSpec == Init /\ [][OlympeNext]_vars

\* the telemetry sampler
TelemetryInit == InitSampler /\ InitStream /\ InitRestream /\ InitOlympe

TelemetrySpec == TelemetryInit /\ [][TelemetryNext]_vars

(* ------------------------------------------------------------------ *)
(* Claims about position_register                                     *)
(* ------------------------------------------------------------------ *)

\* the MQTT broker accepted every connection so far
BrokerReachable == \A i \in 1..Len(evLog) : evLog[i] # "connect_error"

\* two successive telemetry publications are at least Ts apart
PublicationsSpaced ==
    lastPubAt[2] # -1 => lastPubAt[1] - lastPubAt[2] >= Ts

\* the events of Schedule, each handled at its arrival time, with Ts = 1 s:
\* the first and the third are published
ScheduleOutcome ==
    (Ts = Second /\ instant /\ ev_pc = "idle" /\ Len(evLog) = Len(Schedule))
    => evLog = <<"published", "suppressed", "published">>

\* C1: at most one telemetry publication per Ts window (two successive
\* publications are at least Ts apart), and of the events at t = 0.0, 0.5
\* and 1.2 s with Ts = 1.0 s exactly those at 0.0 and 1.2 are published
\* (stated for the runs in which the broker stays reachable).
C1_AtMostOnePerTs ==
    BrokerReachable => (PublicationsSpaced /\ ScheduleOutcome)

(* ------------------------------------------------------------------ *)
(* Claims about rtsp_processing                                       *)
(* ------------------------------------------------------------------ *)

\* the compositor thread holding frame f (dequeued, not yet released)
HeldByCompositor(f) == \E t \in Threads : th[t].yuv_frame = f

\* C2: once the completion flag is set and observed, no live frame is
\* published on 'frame_buffer' any more: no compositor that has read the flag
\* as set publishes its frame, and no live frame follows a placeholder.
C2_NoLiveFrameAfterCompletion ==
    /\ \A i \in 1..Len(frame_buffer) :
          frame_buffer[i].src = "live" => ~frame_buffer[i].seen
    /\ \A i, j \in 1..Len(frame_buffer) :
          (i < j /\ frame_buffer[i].src = "nosignal") => frame_buffer[j].src # "live"

\* C5: when an I420 flush returns, the frame queue is empty and every frame
\* enqueued so far is back at its baseline reference count, unless a
\* compositor thread took it from the queue and still holds its reference.
C5_FlushReleasesEveryFrame ==
    [][(fl.pc = "loop" /\ fl'.pc = "idle")
       => /\ frame_queue' = <<>>
          /\ \A f \in 1..nframes' :
                refcnt'[f] = IF HeldByCompositor(f)' THEN 1 ELSE 0]_vars

\* an I420 flush returned True after releasing a frame enqueued before it
\* began and a frame enqueued while it ran
C5_Witness ==
    /\ fl.result = "true"
    /\ \E f, g \in fl.released : f <= fl.start /\ g > fl.start
    /\ \A f \in fl.released : refcnt[f] = 0

\* the inbox as it stands when nothing was read or cleared: the latest
\* arrivals, at most MessageQueueMaxsize of them, in arrival order
LatestArrivals(n) ==
    LET k == IF n < MessageQueueMaxsize THEN n ELSE MessageQueueMaxsize
    IN  [i \in 1..k |-> n - k + i]

NothingRead ==
    /\ rs.clears = 0
    /\ \A t \in Threads : th[t].last_telemetry = WaitingText /\ th[t].pc # "message_get"

\* C6: the inbox never holds more than 50 entries; it holds its entries in
\* arrival order and every entry read is older than all entries retained;
\* with no reads, an arrival at a full inbox drops exactly the oldest entry,
\* so after items 1..51 the inbox holds exactly 2..51.
C6_InboxDropsOldest ==
    /\ Len(message_queue) <= MessageQueueMaxsize
    /\ \A i, j \in 1..Len(message_queue) : i < j => message_queue[i] < message_queue[j]
    /\ \A t \in Threads : \A i \in 1..Len(message_queue) :
          th[t].last_telemetry < message_queue[i]
    /\ (om.pc = "idle" /\ NothingRead) => message_queue = LatestArrivals(nmsgs)

\* items 1..51 were inserted with no read in between
C6_Witness ==
    /\ nmsgs = MessageQueueMaxsize + 1
    /\ om.pc = "idle"
    /\ NothingRead
    /\ Len(message_queue) = MessageQueueMaxsize
    /\ Head(message_queue) = 2

\* C8: the compositor never waits for telemetry: a thread about to call
\* message_queue.get() always finds an entry.
C8_TelemetryReadNeverWaits ==
    \A t \in Threads : th[t].pc = "message_get" => message_queue # <<>>

\* C9: a frame dequeued by the compositor is released on every exit path of
\* the iteration, also when conversion, encoding or the publish raises.
C9_FrameReleasedOnEveryExit ==
    \A t \in Threads :
       th[t].pc \in {"raised", "while", "get", "done"}
       => (th[t].yuv_frame = 0 \/ refcnt[th[t].yuv_frame] = 0)

\* C10: every iteration boundary observes the completion flag, also the one
\* after a dequeue timeout: a thread that times out while the flag is set
\* comes back to the loop condition with offline_flag set, and leaves.
C10_TimeoutObservesFlag ==
    [][\A t \in Threads :
         (th[t].pc = "get" /\ th'[t].pc = "while" /\ stream_flag_event)
         => th'[t].offline_flag]_vars

(* ------------------------------------------------------------------ *)
(* Claims about restreaming                                           *)
(* ------------------------------------------------------------------ *)

\* the buffers of two successive pulls are one frame duration apart
OneDurationApart(a, b) ==
    /\ b.pts = a.pts + a.duration
    /\ b.dts = a.dts + a.duration

\* C3: a pull made before any relay message was handed to buffer_callback
\* emits the NO SIGNAL placeholder; once a message was handed over, every
\* pull emits the frame of the latest message handed over, again and again
\* until a newer message overwrites the cache.
C3_PullEmitsCacheOrPlaceholder ==
    \A i \in 1..Len(emitted) :
       IF emitted[i].delivered = 0
       THEN emitted[i].frame = offline_frame
       ELSE /\ emitted[i].frame.src = "relay"
            /\ emitted[i].frame.id = emitted[i].delivered

\* a placeholder pull, then the frame of message 1 emitted by two pulls
C3_Witness ==
    /\ Len(emitted) >= 3
    /\ emitted[1].delivered = 0
    /\ emitted[2].delivered = 1
    /\ emitted[3].delivered = 1
    /\ emitted[3].frame = emitted[2].frame

\* C4 as stated: over the whole life of the factory, whatever is interleaved
\* between two pulls, each buffer's pts and dts exceed those of the buffer
\* before by exactly one frame duration.
C4_TimestampsStrictlyIncrease ==
    \A i \in 1..(Len(emitted) - 1) : OneDurationApart(emitted[i], emitted[i + 1])

\* C4 amended: every buffer lasts 33333333 ns; between two do_configure calls
\* each buffer's pts and dts exceed those of the buffer before by exactly that
\* duration; the first buffer after a do_configure has pts and dts 0.
C4_TimestampsIncreaseWithinMedia ==
    /\ \A i \in 1..Len(emitted) :
          /\ emitted[i].duration = 33333333
          /\ emitted[i].pts = emitted[i].dts
    /\ Len(emitted) > 0 => emitted[1].pts = 0
    /\ \A i \in 1..(Len(emitted) - 1) :
          IF emitted[i + 1].media = emitted[i].media
          THEN OneDurationApart(emitted[i], emitted[i + 1])
          ELSE emitted[i + 1].pts = 0

\* two pulls of the first media, a do_configure, two pulls of the second
C4_Witness ==
    /\ Len(emitted) = 4
    /\ emitted[1].media = 1
    /\ emitted[2].media = 1
    /\ emitted[3].media = 2
    /\ emitted[4].media = 2
    /\ emitted[4].pts = frame_duration

\* C7: a pull emits the most recently published relay frame, and no
\* published frame stays queued behind it to be emitted by a later pull.
C7_PullEmitsLatestPublished ==
    \A i \in 1..Len(emitted) :
       emitted[i].published > 0
       => /\ emitted[i].frame.src = "relay"
          /\ emitted[i].frame.id = emitted[i].published
          /\ emitted[i].pending = 0

(* ------------------------------------------------------------------ *)
(* Claims about the offline fallback                                  *)
(* ------------------------------------------------------------------ *)

\* the stream thread is on the live path of run_stream
Live == rs.pc = "check"

\* C11: the completion flag, once set, is never cleared; the stream thread
\* leaves the live path at most once and never comes back to it: offline_mode
\* is entered at most once and no compositor thread is started afterwards.
C11_OfflineIsTerminal ==
    [][/\ stream_flag_event => stream_flag_event'
       /\ ~Live => ~Live'
       /\ rs'.clears <= 1
       /\ ~Live => \A t \in Threads : th[t].pc = "unborn" => th'[t].pc = "unborn"]_vars

\* offline_mode was entered and has gone round its loop
C11_Witness ==
    /\ stream_flag_event
    /\ rs.clears = 1
    /\ rs.placeholders = 2
    /\ rs.pc = "sleep"

(* ------------------------------------------------------------------ *)
(* Claims about the gates of onEventChanged                           *)
(* ------------------------------------------------------------------ *)

\* both gates are open for an event whose timestamp string was taken at t
BothGatesOpen(t) ==
    /\ strftime(t) # strftime(last_update)
    /\ now - last_update >= Ts

\* the step ends an invocation with the given outcomes excluded
EndsOtherThan(outcomes) ==
    /\ Len(evLog') > Len(evLog)
    /\ evLog'[Len(evLog')] \notin outcomes

\* C12: with the broker reachable, an event is published if and only if its
\* second-resolution timestamp differs from that of last_update and at least
\* Ts has elapsed since last_update.
C12_PublishesIffBothGates ==
    [][/\ pubCount'.telemetry_topic # pubCount.telemetry_topic => BothGatesOpen(ev_t)
       /\ EndsOtherThan({"published", "connect_error"})
          => ~BothGatesOpen(IF ev_pc = "idle" THEN now ELSE ev_t)]_vars

(* ------------------------------------------------------------------ *)
(* Claims about the telemetry inbox callback                          *)
(* ------------------------------------------------------------------ *)

\* C13: on_message never waits: when it is about to call get() the inbox
\* holds an entry, and when it is about to call put() the inbox has room.
C13_OnMessageNeverBlocks ==
    /\ om.pc = "get" => message_queue # <<>>
    /\ om.pc = "put" => Len(message_queue) < MessageQueueMaxsize

(* ------------------------------------------------------------------ *)
(* Claims about the frame ingest queue                                *)
(* ------------------------------------------------------------------ *)

\* C14: live frames are published on 'frame_buffer' in the order in which
\* yuv_frame_cb enqueued them (frames are numbered in that order), and the
\* frames waiting in frame_queue are in that order too.
C14_FramesRelayedInEnqueueOrder ==
    /\ \A i, j \in 1..Len(frame_buffer) :
          (i < j /\ frame_buffer[i].src = "live" /\ frame_buffer[j].src = "live")
          => frame_buffer[i].yuv_frame < frame_buffer[j].yuv_frame
    /\ \A i, j \in 1..Len(frame_queue) : i < j => frame_queue[i] < frame_queue[j]

\* C15: no operation on a frame queue stalls its caller: no consumer is left
\* waiting in a dequeue that has no timeout. (yuv_frame_cb and the
\* compositor's get(timeout=0.1) complete in one step whatever the queue holds.)
C15_NoQueueOperationStalls ==
    olympe_run.pc # "waiting"

(* ------------------------------------------------------------------ *)
(* Claims about the messages of a telemetry publication               *)
(* ------------------------------------------------------------------ *)

\* the messages of the latest publishing invocation are the telemetry sample
\* and the camera snapshot of the same time, the snapshot's time field first
SampleWithSnapshot ==
    /\ Len(mqtt_out) = 2
    /\ mqtt_out[1].topic = "telemetry_topic"
    /\ mqtt_out[2].topic = "camera_topic"
    /\ mqtt_out[1].time = mqtt_out[2].time
    /\ mqtt_out[2].first = "time"

\* C16: whenever no invocation is in progress, as many camera snapshots as
\* telemetry samples have been published, and the latest publication is a
\* sample with its snapshot.
C16_SampleAndSnapshotTogether ==
    ev_pc = "idle"
    => /\ pubCount.telemetry_topic = pubCount.camera_topic
       /\ mqtt_out # <<>> => SampleWithSnapshot

\* C17: last_update changes only in the step that ends a published
\* invocation, after both messages went out, and becomes the current time;
\* an invocation that is suppressed or raises leaves it unchanged.
C17_LastUpdateOnlyOnPublish ==
    [][/\ last_update' # last_update
          => /\ Len(evLog') > Len(evLog)
             /\ evLog'[Len(evLog')] = "published"
             /\ SampleWithSnapshot
       /\ EndsOtherThan({"published"}) => last_update' = last_update
       /\ EndsOtherThan({"suppressed", "attribute_error", "connect_error"})
          => last_update' = now]_vars

\* a published event, then one whose publication raised, which left
\* last_update at the time of the first
C17_Witness ==
    /\ Len(evLog) = 2
    /\ evLog[1] = "published"
    /\ evLog[2] = "connect_error"
    /\ last_update = lastPubAt[2]
    /\ lastPubAt[1] > lastPubAt[2]

(* ------------------------------------------------------------------ *)
(* Claims about the offline transition                                *)
(* ------------------------------------------------------------------ *)

\* C19: the inbox is cleared at most once, every placeholder is published
\* after the clear, and no frame published after the clear carries a
\* telemetry text that was received before it.
C19_NoStaleTextAfterTransition ==
    /\ rs.clears <= 1
    /\ \A i \in 1..Len(frame_buffer) :
          /\ frame_buffer[i].src = "nosignal" => frame_buffer[i].clears = 1
          /\ (frame_buffer[i].src = "live" /\ frame_buffer[i].clears >= 1)
             => \/ frame_buffer[i].text = WaitingText
                \/ frame_buffer[i].text > rs.cleared_at

\* the step publishes the NO SIGNAL placeholder on 'frame_buffer'
PublishesPlaceholder ==
    /\ Len(frame_buffer') = Len(frame_buffer) + 1
    /\ frame_buffer'[Len(frame_buffer')].src = "nosignal"

DefaultSnapshot ==
    /\ event_message.camera_status = FALSE
    /\ camera_dict.zoom = ""
    /\ camera_dict.active = FALSE
    /\ camera_dict.time = event_message.time

\* C20: with the camera state not initialised, onEventChanged does not fail:
\* no invocation ends with an exception of its own, and an invocation past
\* the point where the messages are built holds the default snapshot.
C20_UninitializedCameraUsesDefault ==
    /\ \A i \in 1..Len(evLog) : evLog[i] # "attribute_error"
    /\ (camera = "uninit" /\ ev_pc \in {"gate", "pub_telemetry", "pub_camera", "update"})
       => DefaultSnapshot

(* ------------------------------------------------------------------ *)
(* Claims about malformed relay messages                              *)
(* ------------------------------------------------------------------ *)

\* C21: a relay message that is no image is discarded: the cache never holds
\* anything but None, the placeholder or a decoded image, and every buffer
\* emitted carries the placeholder or a decoded image.
C21_MalformedMessageDiscarded ==
    /\ frame.src = "relay" => frame.image
    /\ \A i \in 1..Len(emitted) : emitted[i].frame.image

(* ------------------------------------------------------------------ *)
(* Claims about connection failures                                   *)
(* ------------------------------------------------------------------ *)

\* C22: a failed MQTT connect of mqtt_publisher ends the sampler: the
\* invocation it ended is the last one, no connect is tried again and
\* nothing is published afterwards.
C22_ConnectFailureIsFatal ==
    \A i \in 1..Len(evLog) :
       evLog[i] = "connect_error"
       => /\ \A j \in (i + 1)..Len(evLog) : evLog[j] \notin {"published", "connect_error"}
          /\ i = Len(evLog) => ev_pc \notin {"pub_telemetry", "pub_camera", "update"}

(* ------------------------------------------------------------------ *)
(* Claims about flush_cb                                              *)
(* ------------------------------------------------------------------ *)

\* C23: a flush of a stream that is not I420 returns True at once and leaves
\* the queue and every reference count as they were; frames are drained and
\* released by a flush only while it handles an I420 stream; and no flush
\* ends otherwise than by returning True.
C23_FlushActsOnI420Only ==
    [][/\ (fl'.calls > fl.calls /\ fl'.result = "true_other_format")
          => (fl'.pc = "idle" /\ frame_queue' = frame_queue /\ refcnt' = refcnt)
       /\ fl'.released # fl.released => fl.pc = "get"
       /\ fl'.result # "raised"]_vars

(* ------------------------------------------------------------------ *)
(* Claims about the compositor threads                                *)
(* ------------------------------------------------------------------ *)

\* the compositor threads that run_stream has started, and those still running
Started == {t \in Threads : th[t].pc # "unborn"}

Alive == {t \in Started : th[t].pc \notin {"done", "raised"}}

\* the inbox entry consumed last by any compositor (entries are numbered in
\* arrival order and leave the inbox oldest first); WaitingText before the
\* first one
LastConsumed ==
    CHOOSE m \in {th[t].last_telemetry : t \in Threads} :
       \A t \in Threads : th[t].last_telemetry <= m

\* C24: the text overlaid on a published live frame is the inbox entry that
\* was consumed most recently, and 'waiting telemetry data...' as long as
\* none has been consumed; a compositor takes at most one entry, the oldest,
\* per frame.
C24_OverlayIsLastConsumedEntry ==
    [][/\ (Len(frame_buffer') > Len(frame_buffer)
           /\ frame_buffer'[Len(frame_buffer')].src = "live")
          => frame_buffer'[Len(frame_buffer')].text = LastConsumed
       /\ \A t \in Threads :
             th'[t].last_telemetry # th[t].last_telemetry
             => /\ th[t].pc = "message_get"
                /\ th'[t].last_telemetry = Head(message_queue)
                /\ message_queue' = Tail(message_queue)]_vars

\* C25: at most one compositor thread is alive at any moment, and run_stream
\* calls retrieve_frames (which starts the capture and a compositor thread)
\* at most once while the state is LIVE.
C25_OneCompositorThread ==
    /\ Cardinality(Alive) <= 1
    /\ ~stream_flag_event => Cardinality(Started) <= 1

\* C26: while flush_cb and OlympeStreaming.run take frames from the same
\* queue, no frame is taken by both, no frame is released more often than it
\* was referenced, and flush_cb never ends with an exception.
C26_FlushAndConsumerShareQueue ==
    /\ olympe_run.yuv_frame \notin olympe_fl.released
    /\ \A f \in OlympeFrames : olympe_refcnt[f] >= 0
    /\ olympe_fl.result # "raised"

\* the first two conjuncts of C26 alone
C26_EachFrameTakenOnce ==
    /\ olympe_run.yuv_frame \notin olympe_fl.released
    /\ \A f \in OlympeFrames : olympe_refcnt[f] >= 0

(* ------------------------------------------------------------------ *)
(* Claims about frames that arrive after the completion flag          *)
(* ------------------------------------------------------------------ *)

\* compositor thread t will call frame_queue.get again: it is at the get, or
\* on its way back to the loop condition with offline_flag still False
WillDequeue(t) ==
    \/ th[t].pc = "get"
    \/ th[t].pc \in {"while", "telemetry", "message_get", "publish"} /\ ~th[t].offline_flag
    \/ th[t].pc = "flag" /\ ~stream_flag_event

\* C27: a frame referenced by yuv_frame_cb and waiting in frame_queue always
\* has someone left to release it: the state is still LIVE (run_stream
\* starts compositors), a running compositor will dequeue again, or a flush
\* is draining the queue. Otherwise the frames enqueued after the completion
\* flag stay referenced and the queue only grows.
C27_QueuedFrameHasConsumer ==
    frame_queue # <<>>
    => \/ ~stream_flag_event
       \/ \E t \in Threads : WillDequeue(t)
       \/ fl.pc # "idle"

(* ------------------------------------------------------------------ *)
(* Claims about the frame duration                                    *)
(* ------------------------------------------------------------------ *)

\* C28: the duration stamped on every pushed buffer is one second divided by
\* the stream_fps of url_data, the framerate that the appsrc caps advertise,
\* and consecutive buffers of a media are that far apart.
C28_DurationMatchesConfiguredFps ==
    \A i \in 1..Len(emitted) :
       /\ emitted[i].duration = GstSecond \div caps_framerate
       /\ (i > 1 /\ emitted[i].media = emitted[i - 1].media)
          => emitted[i].pts - emitted[i - 1].pts = GstSecond \div caps_framerate

====
